---------------------------- MODULE Spec2Model ----------------------------
(***************************************************************************)
(* Model of src/main.py: organize_files_by_extension and main.             *)
(*                                                                         *)
(* File names, extensions and exclusion entries are sequences of one-      *)
(* character strings, so that Path.suffix, Path.stem, str.lower,           *)
(* str.lstrip(".") and the f-string of the collision loop are computed     *)
(* character by character as Python computes them.                         *)
(*                                                                         *)
(* The file system calls that can fail (the two mkdir calls, is_file, the  *)
(* rglob traversal, shutil.copy2) fail nondeterministically.  The order    *)
(* in which rglob yields the entries is left open.                         *)
(***************************************************************************)
EXTENDS Integers, Sequences, FiniteSets, TLC

\* ------------------------------------------------------------------ bounds
MaxFiles == 2     \* entries under the input folder
MaxExclude == 1   \* entries of the exclude_extensions argument

\* ------------------------------------------------------- strings (str, Path)
UpperLetters == <<"A","B","C","D","E","F","G","H","I","J","K","L","M",
                  "N","O","P","Q","R","S","T","U","V","W","X","Y","Z">>
LowerLetters == <<"a","b","c","d","e","f","g","h","i","j","k","l","m",
                  "n","o","p","q","r","s","t","u","v","w","x","y","z">>

\* str.lower() on one character
LowerChar(c) ==
    IF \E i \in 1..Len(UpperLetters) : UpperLetters[i] = c
    THEN LowerLetters[CHOOSE i \in 1..Len(UpperLetters) : UpperLetters[i] = c]
    ELSE c

\* str.lower()
Lower(s) == [i \in 1..Len(s) |-> LowerChar(s[i])]

\* str.lstrip(".")
RECURSIVE LStripDot(_)
LStripDot(s) ==
    IF s # <<>> /\ Head(s) = "." THEN LStripDot(Tail(s)) ELSE s

\* str.startswith('.')
StartsWithDot(s) == s # <<>> /\ Head(s) = "."

\* str.rfind('.'), 1-based; 0 when there is no dot
RFindDot(s) ==
    IF \E i \in 1..Len(s) : s[i] = "."
    THEN CHOOSE i \in 1..Len(s) : s[i] = "." /\ \A j \in (i+1)..Len(s) : s[j] # "."
    ELSE 0

\* PurePath.suffix: name[i:] when 0 < i < len(name) - 1 (0-based i), else ''
Suffix(name) ==
    LET i == RFindDot(name)
    IN  IF 1 < i /\ i < Len(name) THEN SubSeq(name, i, Len(name)) ELSE <<>>

\* PurePath.stem: name[:i] under the same condition, else the whole name
Stem(name) ==
    LET i == RFindDot(name)
    IN  IF 1 < i /\ i < Len(name) THEN SubSeq(name, 1, i - 1) ELSE name

DigitChars == <<"0","1","2","3","4","5","6","7","8","9">>

\* the decimal digits an f-string writes for a positive int
RECURSIVE Digits(_)
Digits(n) ==
    IF n < 10 THEN <<DigitChars[n + 1]>>
    ELSE Digits(n \div 10) \o <<DigitChars[(n % 10) + 1]>>

no_extension == <<"n","o","_","e","x","t","e","n","s","i","o","n">>

\* ext = file_path.suffix.lower().lstrip("."); "no_extension" when empty
ExtOf(name) ==
    LET ext == LStripDot(Lower(Suffix(name)))
    IN  IF ext = <<>> THEN no_extension ELSE ext

\* mutant: the entries are taken as written, without lower()
NormalizeExclude_NoLower(arg) == arg

\* set(ext.lower() for ext in (exclude_extensions or []))
NormalizeExclude(arg) == { Lower(e) : e \in arg }

\* f"{base_name}_{counter}{ext_with_dot}"
NewName(name, counter) == Stem(name) \o <<"_">> \o Digits(counter) \o Suffix(name)

\* mutant: an if in place of the while, the new name is not looked up
DuplicateLoop_Once(existing, folder, name, dest_name, counter) ==
    IF <<folder, dest_name>> \in existing
    THEN NewName(name, counter)
    ELSE dest_name

\* the while loop: dest_path.exists() is asked again after every increment
RECURSIVE DuplicateLoop(_, _, _, _, _)
DuplicateLoop(existing, folder, name, dest_name, counter) ==
    IF <<folder, dest_name>> \in existing
    THEN DuplicateLoop(existing, folder, name, NewName(name, counter), counter + 1)
    ELSE dest_name

\* mutant: counter = 0
ResolveDest_FromZero(existing, folder, name) ==
    DuplicateLoop(existing, folder, name, name, 0)

\* dest_path as the copy sees it: counter starts at 1 for every file
ResolveDest(existing, folder, name) ==
    DuplicateLoop(existing, folder, name, name, 1)

\* sys.exit(0 if success else 1)
ExitCode(success) == IF success THEN 0 ELSE 1

\* ------------------------------------------------------------------ inputs
a_txt    == <<"a",".","t","x","t">>
a_TXT    == <<"a",".","T","X","T">>
note     == <<"n","o","t","e">>
hidden   == <<".","h",".","t","x","t">>
a_noext  == <<"a",".">> \o no_extension
subdir   == <<"s","u","b">>

Entry(d, n, k) == [dir |-> d, name |-> n, kind |-> k]

\* what the input tree may contain: (directory, base name, kind)
EntryPool ==
    { Entry("", a_txt, "file"), Entry("sub", a_txt, "file"),
      Entry("", a_TXT, "file"),
      Entry("", note, "file"),  Entry("", hidden, "file"),
      Entry("", a_noext, "file"), Entry("", subdir, "dir") }

ExcludePool ==
    { <<"T","X","T">>, <<".","t","x","t">>, no_extension }


\* a file of the output tree: which input file it was copied from, in which
\* run, and whether copy2 finished writing it
Content(e, r, w) == [src |-> e, run |-> r, whole |-> w]
OldContent == Content(Entry("old", <<>>, "file"), 0, TRUE)

\* the output folder before the first run: absent, or left by earlier use
DestPool ==
    { [exists |-> FALSE, folders |-> {}, files |-> <<>>],
      [exists |-> TRUE, folders |-> {<<"t","x","t">>},
       files |-> (<< <<"t","x","t">>, a_txt >> :> OldContent)] }

\* ------------------------------------------------------------------- state
VARIABLES
    src_kind,            \* input_folder: "missing", "file" or "dir"
    tree,                \* the entries under input_folder
    exclude_arg,         \* the exclude_extensions argument
    out_exists,          \* output_base exists
    folders,             \* the subfolders of output_base
    files,               \* <<folder, name>> -> Content, the files in them
    pc,                  \* "start", "enum", "process", "done"
    exclude_extensions,  \* the normalized set (line 37)
    pending,             \* entries rglob has not yielded yet
    all_files,           \* the candidates, in the order collected
    idx,                 \* position of the for loop in all_files
    copied_files, skipped_files, errors,
    out,                 \* the per-entry lines printed by this run
    result,              \* the return value, once pc = "done"
    exit_status,         \* what main passes to sys.exit, -1 before
    run                  \* number of the current run

vars == <<src_kind, tree, exclude_arg, out_exists, folders, files, pc,
          exclude_extensions, pending, all_files, idx, copied_files,
          skipped_files, errors, out, result, exit_status, run>>

inputs == <<src_kind, tree, exclude_arg>>
output_tree == <<out_exists, folders, files>>
counters == <<copied_files, skipped_files, errors>>

Line(k, e, d) == [kind |-> k, file |-> e, dest |-> d]

SmallSubsets(S, n) == { T \in SUBSET S : Cardinality(T) <= n }

Init ==
    /\ src_kind \in {"missing", "file", "dir"}
    /\ tree \in IF src_kind = "dir" THEN SmallSubsets(EntryPool, MaxFiles) ELSE {{}}
    /\ exclude_arg \in SmallSubsets(ExcludePool, MaxExclude)
    /\ \E d \in DestPool :
          /\ out_exists = d.exists
          /\ folders = d.folders
          /\ files = d.files
    /\ pc = "start"
    /\ exclude_extensions = {}
    /\ pending = {}
    /\ all_files = <<>>
    /\ idx = 1
    /\ copied_files = 0
    /\ skipped_files = 0
    /\ errors = 0
    /\ out = <<>>
    /\ result = FALSE
    /\ exit_status = -1
    /\ run = 1

\* return from organize_files_by_extension, then main's sys.exit
Return(success) ==
    /\ pc' = "done"
    /\ result' = success
    /\ exit_status' = ExitCode(success)

\* mutant: output_base.mkdir is called before the input folder is looked at
SourceMissing_MkdirFirst ==
    /\ pc = "start"
    /\ src_kind = "missing"
    /\ out_exists' = TRUE
    /\ Return(FALSE)
    /\ UNCHANGED <<inputs, folders, files, exclude_extensions, pending,
                   all_files, idx, counters, out, run>>

\* lines 23-25
SourceMissing ==
    /\ pc = "start"
    /\ src_kind = "missing"
    /\ Return(FALSE)
    /\ UNCHANGED <<inputs, output_tree, exclude_extensions, pending, all_files,
                   idx, counters, out, run>>

\* lines 26-28
SourceNotDir ==
    /\ pc = "start"
    /\ src_kind = "file"
    /\ Return(FALSE)
    /\ UNCHANGED <<inputs, output_tree, exclude_extensions, pending, all_files,
                   idx, counters, out, run>>

\* lines 31-35: output_base.mkdir raises
OutputMkdirFail ==
    /\ pc = "start"
    /\ src_kind = "dir"
    /\ ~out_exists
    /\ Return(FALSE)
    /\ UNCHANGED <<inputs, output_tree, exclude_extensions, pending, all_files,
                   idx, counters, out, run>>

\* lines 31-40: output_base is there or is made; the exclusion set is built
OutputMkdirOk ==
    /\ pc = "start"
    /\ src_kind = "dir"
    /\ out_exists' = TRUE
    /\ exclude_extensions' = NormalizeExclude(exclude_arg)
    /\ pending' = tree
    /\ all_files' = <<>>
    /\ pc' = "enum"
    /\ UNCHANGED <<inputs, folders, files, idx, counters, out, result,
                   exit_status, run>>

\* mutant: the startswith('.') test is missing
IsCandidate_NoHiddenTest(e) == e.kind = "file"

\* line 44: the test that admits an entry to all_files
IsCandidate(e) == e.kind = "file" /\ ~StartsWithDot(e.name)

\* lines 42-45: rglob yields an entry, is_file() answers
EnumEntry ==
    /\ pc = "enum"
    /\ \E e \in pending :
          /\ pending' = pending \ {e}
          /\ all_files' = IF IsCandidate(e) THEN Append(all_files, e) ELSE all_files
    /\ UNCHANGED <<inputs, output_tree, pc, exclude_extensions, idx, counters,
                   out, result, exit_status, run>>

\* lines 46-49: is_file() raises OSError
EnumUnreadable ==
    /\ pc = "enum"
    /\ \E e \in pending :
          /\ pending' = pending \ {e}
          /\ out' = Append(out, Line("unreadable", e, <<>>))
    /\ skipped_files' = skipped_files + 1
    /\ errors' = errors + 1
    /\ UNCHANGED <<inputs, output_tree, pc, exclude_extensions, all_files, idx,
                   copied_files, result, exit_status, run>>

\* lines 50-53: the traversal itself raises
TraversalFail ==
    /\ pc = "enum"
    /\ pending # {}
    /\ errors' = errors + 1
    /\ Return(FALSE)
    /\ UNCHANGED <<inputs, output_tree, exclude_extensions, pending, all_files,
                   idx, copied_files, skipped_files, out, run>>

\* line 55: rglob is exhausted
EnumDone ==
    /\ pc = "enum"
    /\ pending = {}
    /\ pc' = "process"
    /\ idx' = 1
    /\ UNCHANGED <<inputs, output_tree, exclude_extensions, pending, all_files,
                   counters, out, result, exit_status, run>>

InLoop == pc = "process" /\ idx <= Len(all_files)

\* mutant: the subfolder is made before the exclusion test
ProcessExcluded_MkdirFirst ==
    /\ pc = "process" /\ idx <= Len(all_files)
    /\ LET e == all_files[idx] IN
          /\ ExtOf(e.name) \in exclude_extensions
          /\ folders' = folders \cup {ExtOf(e.name)}
          /\ out' = Append(out, Line("excluded", e, <<>>))
    /\ skipped_files' = skipped_files + 1
    /\ idx' = idx + 1
    /\ UNCHANGED <<inputs, out_exists, files, pc, exclude_extensions, pending,
                   all_files, copied_files, errors, result, exit_status, run>>

\* lines 59-68
ProcessExcluded ==
    /\ InLoop
    /\ LET e == all_files[idx] IN
          /\ ExtOf(e.name) \in exclude_extensions
          /\ out' = Append(out, Line("excluded", e, <<>>))
    /\ skipped_files' = skipped_files + 1
    /\ idx' = idx + 1
    /\ UNCHANGED <<inputs, output_tree, pc, exclude_extensions, pending,
                   all_files, copied_files, errors, result, exit_status, run>>

\* lines 70-77: output_folder.mkdir raises
ProcessMkdirFail ==
    /\ InLoop
    /\ LET e == all_files[idx] IN
          /\ ExtOf(e.name) \notin exclude_extensions
          /\ out' = Append(out, Line("mkdir_error", e, <<>>))
    /\ errors' = errors + 1
    /\ idx' = idx + 1
    /\ UNCHANGED <<inputs, output_tree, pc, exclude_extensions, pending,
                   all_files, copied_files, skipped_files, result, exit_status,
                   run>>

\* writing dest_path: what is at a path after open(dst, 'wb') and the copy
WriteFile(fs, path, c) ==
    [q \in DOMAIN fs \cup {path} |-> IF q = path THEN c ELSE fs[q]]

\* lines 70-93: the folder is made, the name resolved, copy2 succeeds
ProcessCopyOk ==
    /\ InLoop
    /\ LET e == all_files[idx]
           ext == ExtOf(e.name)
           dest == ResolveDest(DOMAIN files, ext, e.name)
       IN  /\ ext \notin exclude_extensions
           /\ folders' = folders \cup {ext}
           /\ files' = WriteFile(files, <<ext, dest>>, Content(e, run, TRUE))
           /\ out' = Append(out, Line("copied", e, dest))
    /\ copied_files' = copied_files + 1
    /\ idx' = idx + 1
    /\ UNCHANGED <<inputs, out_exists, pc, exclude_extensions, pending,
                   all_files, skipped_files, errors, result, exit_status, run>>

\* mutant: the except clause ends the loop (break in place of continue)
ProcessCopyFail_Break ==
    /\ pc = "process" /\ idx <= Len(all_files)
    /\ LET e == all_files[idx]
           ext == ExtOf(e.name)
           dest == ResolveDest(DOMAIN files, ext, e.name)
       IN  /\ ext \notin exclude_extensions
           /\ folders' = folders \cup {ext}
           /\ files' = files
           /\ out' = Append(out, Line("copy_error", e, dest))
    /\ errors' = errors + 1
    /\ Return(copied_files > 0)
    /\ UNCHANGED <<inputs, out_exists, exclude_extensions, pending, all_files,
                   idx, copied_files, skipped_files, run>>

\* lines 70-97: copy2 raises, before dest_path is opened or after part of it
\* was written
ProcessCopyFail ==
    /\ InLoop
    /\ LET e == all_files[idx]
           ext == ExtOf(e.name)
           dest == ResolveDest(DOMAIN files, ext, e.name)
       IN  /\ ext \notin exclude_extensions
           /\ folders' = folders \cup {ext}
           /\ \/ files' = files
              \/ files' = WriteFile(files, <<ext, dest>>, Content(e, run, FALSE))
           /\ out' = Append(out, Line("copy_error", e, dest))
    /\ errors' = errors + 1
    /\ idx' = idx + 1
    /\ UNCHANGED <<inputs, out_exists, pc, exclude_extensions, pending,
                   all_files, copied_files, skipped_files, result, exit_status,
                   run>>

\* mutant: success means that nothing went wrong
Finish_NoErrors ==
    /\ pc = "process"
    /\ idx > Len(all_files)
    /\ Return(errors = 0)
    /\ UNCHANGED <<inputs, output_tree, exclude_extensions, pending, all_files,
                   idx, counters, out, run>>

\* lines 99-103 and 112-113
Finish ==
    /\ pc = "process"
    /\ idx > Len(all_files)
    /\ Return(copied_files > 0)
    /\ UNCHANGED <<inputs, output_tree, exclude_extensions, pending, all_files,
                   idx, counters, out, run>>

\* the program is started a second time on the same folders (lines 14-16 anew)
Rerun ==
    /\ pc = "done"
    /\ run = 1
    /\ run' = run + 1
    /\ pc' = "start"
    /\ exclude_extensions' = {}
    /\ pending' = {}
    /\ all_files' = <<>>
    /\ idx' = 1
    /\ copied_files' = 0
    /\ skipped_files' = 0
    /\ errors' = 0
    /\ out' = <<>>
    /\ result' = FALSE
    /\ exit_status' = -1
    /\ UNCHANGED <<inputs, output_tree>>

Next ==
    \/ SourceMissing
    \/ SourceNotDir
    \/ OutputMkdirFail
    \/ OutputMkdirOk
    \/ EnumEntry
    \/ EnumUnreadable
    \/ TraversalFail
    \/ EnumDone
    \/ ProcessExcluded
    \/ ProcessMkdirFail
    \/ ProcessCopyOk
    \/ ProcessCopyFail
    \/ Finish

Spec == Init /\ [][Next]_vars

\* the same input tree organized again and again into the same output folder
InitRerun ==
    /\ Init
    /\ ~out_exists

NextRerun == Next \/ Rerun

SpecRerun == InitRerun /\ [][NextRerun]_vars


\* ------------------------------------------------------------- properties
OutIdx == 1..Len(out)
LoopKinds == {"copied", "excluded", "mkdir_error", "copy_error"}
LinesOf(e, kinds) == { i \in OutIdx : out[i].file = e /\ out[i].kind \in kinds }
LinesOfKind(kinds) == { i \in OutIdx : out[i].kind \in kinds }
Hidden(e) == StartsWithDot(e.name)
\* the name tried after k collisions; the base name itself for k = 0
NameAfter(name, k) == IF k = 0 THEN name ELSE NewName(name, k)
\* the files of the output tree written by run r from input file e
CopiesOf(e, r) == { p \in DOMAIN files : files[p].src = e /\ files[p].run = r }

\* C1: once enumeration is over, every candidate gets exactly one of the lines
\* copied / excluded / error, in loop order; the counters count those lines;
\* the run ends only after the last candidate, whatever failed;
\* copied + excluded <= number of candidates.
C1_EveryCandidateOnce ==
    (pc \in {"process", "done"} /\ pending = {}) =>
        /\ \A i \in 1..Len(all_files) :
              Cardinality(LinesOf(all_files[i], LoopKinds)) = IF i < idx THEN 1 ELSE 0
        /\ copied_files = Cardinality(LinesOfKind({"copied"}))
        /\ skipped_files = Cardinality(LinesOfKind({"excluded", "unreadable"}))
        /\ errors = Cardinality(LinesOfKind({"mkdir_error", "copy_error", "unreadable"}))
        /\ copied_files + Cardinality(LinesOfKind({"excluded"})) <= Len(all_files)
        /\ (pc = "done" => idx = Len(all_files) + 1)

\* a run of three outcomes: one copy failed, one folder could not be made or a
\* file was excluded, and a later candidate was still copied
C1_Witness ==
    /\ pc = "done"
    /\ \E i, j \in OutIdx :
          /\ i < j
          /\ out[i].kind \in {"copy_error", "mkdir_error"}
          /\ out[j].kind = "copied"

\* C2: no step changes or removes a file of the output tree; a step that
\* writes one writes <stem>_k<suffix> (the plain name for k = 0) for the
\* smallest k whose name is not there yet.
C2_NoOverwrite ==
    [][ /\ \A p \in DOMAIN files : p \in DOMAIN files' /\ files'[p] = files[p]
        /\ files' # files =>
              LET e == all_files[idx]
                  ext == ExtOf(e.name)
              IN  \E k \in 0..Cardinality(DOMAIN files) :
                     /\ DOMAIN files' \ DOMAIN files = {<<ext, NameAfter(e.name, k)>>}
                     /\ \A j \in 0..(k - 1) : <<ext, NameAfter(e.name, j)>> \in DOMAIN files
      ]_vars

\* two files were copied in one run to <stem>_1 and <stem>_2
C2_Witness ==
    \E i, j \in OutIdx :
       /\ out[i].kind = "copied" /\ out[i].dest = NewName(out[i].file.name, 1)
       /\ out[j].kind = "copied" /\ out[j].dest = NewName(out[j].file.name, 2)

\* C3 as stated: every file the second run copies is named <stem>_1<suffix>.
C3_SecondRunSuffixOne ==
    run = 2 =>
        \A i \in OutIdx :
           out[i].kind = "copied" => out[i].dest = NewName(out[i].file.name, 1)

\* C3 as amended: a file the first run copied is copied by the second run to
\* <stem>_k<suffix> for some k >= 1 with all smaller names taken, and the
\* first run's copy is still there; no step overwrites a file.
C3_SecondRunSuffixK ==
    /\ [](run = 2 =>
            \A i \in OutIdx :
               (out[i].kind = "copied" /\ CopiesOf(out[i].file, 1) # {}) =>
                  LET e == out[i].file
                      ext == ExtOf(e.name)
                  IN  /\ \E k \in 1..Cardinality(DOMAIN files) :
                             /\ out[i].dest = NewName(e.name, k)
                             /\ \A j \in 0..(k - 1) :
                                   <<ext, NameAfter(e.name, j)>> \in DOMAIN files
                      /\ files[<<ext, out[i].dest>>] = Content(e, 2, TRUE))
    /\ [][\A p \in DOMAIN files : p \in DOMAIN files' /\ files'[p] = files[p]]_vars

\* both runs copied the same file, the second one to <stem>_2
C3_Witness ==
    /\ run = 2
    /\ \E i \in OutIdx :
          /\ out[i].kind = "copied"
          /\ \E p \in CopiesOf(out[i].file, 1) : files[p].whole
          /\ out[i].dest = NewName(out[i].file.name, 2)

\* C4: with the input folder missing or not a directory, the first step
\* returns False, and no step touches the output tree, the candidates, the
\* counters or the printed lines.
C4_InvalidSourceNoWork ==
    [][ src_kind # "dir" =>
           /\ UNCHANGED <<output_tree, pending, all_files, idx, counters, out>>
           /\ pc = "start" => (pc' = "done" /\ result' = FALSE)
      ]_vars

C4_Witness == pc = "done" /\ src_kind # "dir" /\ ~out_exists /\ ~result

\* C5: at the end of a run the result is True exactly when a file was copied
\* in this run, and the exit status is 0 exactly when the result is True.
C5_ResultIffCopied ==
    pc = "done" =>
        /\ result <=> (\E p \in DOMAIN files : files[p].run = run /\ files[p].whole)
        /\ result <=> LinesOfKind({"copied"}) # {}
        /\ exit_status \in {0, 1}
        /\ exit_status = 0 <=> result

\* a copy failed, another succeeded, the result is True
C5_Witness ==
    /\ pc = "done" /\ result /\ exit_status = 0
    /\ LinesOfKind({"copy_error"}) # {}

\* the real extension of a name: what follows the last dot, as written
RealExt(name) == IF Suffix(name) = <<>> THEN <<>> ELSE Tail(Suffix(name))
\* an exclusion entry without leading dot that equals e's extension but for case
MatchesIgnoringCase(x, e) ==
    /\ x # <<>> /\ ~StartsWithDot(x)
    /\ RealExt(e.name) # <<>>
    /\ Lower(x) = Lower(RealExt(e.name))

\* C6: a candidate whose extension equals an exclusion entry (given without
\* dot) ignoring case is never copied and, once the loop has reached it, is
\* counted as skipped.
C6_ExcludeIgnoresCase ==
    \A i \in 1..Len(all_files) :
       (\E x \in exclude_arg : MatchesIgnoringCase(x, all_files[i])) =>
          /\ CopiesOf(all_files[i], run) = {}
          /\ LinesOf(all_files[i], LoopKinds \ {"excluded"}) = {}
          /\ i < idx => LinesOf(all_files[i], {"excluded"}) # {}

\* a file was skipped for an entry written in another letter case
C6_Witness ==
    \E i \in OutIdx :
       /\ out[i].kind = "excluded"
       /\ \E x \in exclude_arg :
             /\ MatchesIgnoringCase(x, out[i].file)
             /\ x # RealExt(out[i].file.name)

\* C7 as stated: the loop skips a candidate exactly when its extension is in
\* the exclusion list lower-cased and stripped of leading dots.
C7_ExcludeDotStripped ==
    \A i \in OutIdx :
       out[i].kind \in LoopKinds =>
          (out[i].kind = "excluded"
              <=> ExtOf(out[i].file.name) \in { LStripDot(Lower(x)) : x \in exclude_arg })

\* C8 as stated: what the run puts into no_extension, and what the sentinel
\* excludes, are files without extension only.
C8_SentinelOnlyExtensionless ==
    /\ \A p \in DOMAIN files :
          (p[1] = no_extension /\ files[p].run >= 1) => Suffix(files[p].src.name) = <<>>
    /\ \A i \in OutIdx :
          (out[i].kind = "excluded" /\ ExtOf(out[i].file.name) = no_extension)
             => Suffix(out[i].file.name) = <<>>

\* C9 as stated: no hidden file is a candidate, is copied, or has a line (and
\* with it a counter increment) of its own.
C9_HiddenNeverCounted ==
    /\ \A i \in 1..Len(all_files) : ~Hidden(all_files[i])
    /\ \A p \in DOMAIN files : ~Hidden(files[p].src)
    /\ \A i \in OutIdx : ~Hidden(out[i].file)

\* C9 as amended: no hidden file is a candidate or is copied, in whole or in
\* part; the only line about one is that of an is_file() that raised, which
\* counts one skip and one error.
C9_HiddenNeverCandidate ==
    /\ \A i \in 1..Len(all_files) : ~Hidden(all_files[i])
    /\ \A p \in DOMAIN files : ~Hidden(files[p].src)
    /\ \A i \in OutIdx : Hidden(out[i].file) => out[i].kind = "unreadable"
    /\ copied_files = Cardinality({ i \in OutIdx : out[i].kind = "copied" /\ ~Hidden(out[i].file) })

\* a hidden file was enumerated and dropped, and the run copied another file
C9_Witness ==
    /\ pc = "done" /\ pending = {} /\ result
    /\ \E e \in tree : Hidden(e) /\ e.kind = "file" /\ LinesOf(e, {"unreadable"}) = {}

\* C10: with an excluded candidate at the head of the loop, the step adds one
\* to skipped_files and leaves the output tree, copied_files and errors
\* alone; no step makes a folder named by the exclusion set.
C10_ExcludedLeavesTree ==
    [][ /\ (InLoop /\ ExtOf(all_files[idx].name) \in exclude_extensions) =>
              /\ skipped_files' = skipped_files + 1
              /\ idx' = idx + 1
              /\ UNCHANGED <<output_tree, copied_files, errors>>
        /\ (folders' \ folders) \cap exclude_extensions = {}
      ]_vars

\* a file was skipped and the folder of its extension does not exist
C10_Witness ==
    \E i \in OutIdx :
       /\ out[i].kind = "excluded"
       /\ ExtOf(out[i].file.name) \notin folders
       /\ out_exists

====
